---- MODULE Spec2Model ----
(***************************************************************************)
(* Model of src/simple_landing.py: the indirect (Pontryagin) shooting      *)
(* problem `simple_landing`.                                               *)
(*                                                                         *)
(* Numbers.  A Python/numpy float is modelled as a triple <<n, d, tag>>:   *)
(*   d > 0          the rational n/d (kept in lowest terms)                *)
(*   d = 0, n # 0   +inf (n = 1) or -inf (n = -1)                          *)
(*   d = 0, n = 0   NaN                                                    *)
(*   tag = "py"     a Python float   (ZeroDivisionError on x / 0.)         *)
(*   tag = "np"     a numpy.float64  (inf / nan on x / 0., no exception)   *)
(*   any other tag  the name of the exception raised while computing the   *)
(*                  value; it propagates through every later operation.    *)
(* Arithmetic is exact as long as numerators and denominators fit the      *)
(* model checker's integers; beyond that an operand loses low-order bits   *)
(* (it is rounded), and a magnitude that cannot be kept becomes inf or 0.  *)
(* Signed zeros are not distinguished.                                     *)
(***************************************************************************)
EXTENDS Integers, Sequences, FiniteSets, TLC

\* ------------------------------------------------------------------------
\* Integer helpers
\* ------------------------------------------------------------------------

\* Largest magnitude of a numerator or denominator (46340^2 < 2^31).
Limit == 46340 * 46340

Abs(i) == IF i < 0 THEN -i ELSE i

Sgn(i) == IF i < 0 THEN -1 ELSE IF i > 0 THEN 1 ELSE 0

\* Integer division truncating toward zero.
TDiv(i, k) == Sgn(i) * (Abs(i) \div k)

RECURSIVE GCD(_, _)
GCD(a, b) == IF b = 0 THEN a ELSE GCD(b, a % b)

\* a * b <= Limit, for a, b >= 0, decided without computing the product.
Fits(a, b) == a = 0 \/ b <= Limit \div a

\* a * b <= Limit / 2: two such products can be added.
FitsH(a, b) == a = 0 \/ b <= (Limit \div 2) \div a

RECURSIVE ISqrtB(_, _, _)
ISqrtB(m, lo, hi) ==
    IF hi <= lo + 1 THEN lo
    ELSE LET mid == (lo + hi) \div 2
         IN  IF mid * mid <= m THEN ISqrtB(m, mid, hi) ELSE ISqrtB(m, lo, mid)

\* Floor of the square root of m, 0 <= m <= Limit.
ISqrt(m) == ISqrtB(m, 0, 46341)

\* ------------------------------------------------------------------------
\* Extended rationals <<n, d>>
\* ------------------------------------------------------------------------

NaNq == <<0, 0>>

Infq(s) == <<Sgn(s), 0>>

IsNaNq(p) == p[1] = 0 /\ p[2] = 0

IsInfq(p) == p[1] # 0 /\ p[2] = 0

IsFinq(p) == p[2] > 0

\* n/d in lowest terms, d > 0.
Q(n, d) ==
    IF n = 0 THEN <<0, 1>>
    ELSE LET g == GCD(Abs(n), d) IN <<n \div g, d \div g>>

NegQ(p) == <<-p[1], p[2]>>

RECURSIVE MulR(_, _, _, _)
MulR(n1, d1, n2, d2) ==
    IF Fits(Abs(n1), Abs(n2)) /\ Fits(d1, d2) THEN Q(n1 * n2, d1 * d2)
    ELSE IF d1 = 1 /\ d2 = 1 THEN Infq(Sgn(n1) * Sgn(n2))
    ELSE IF Abs(n1) <= 1 /\ Abs(n2) <= 1 THEN <<0, 1>>
    ELSE LET m1 == IF Abs(n1) >= Abs(n2) THEN TDiv(n1, 2) ELSE n1
             m2 == IF Abs(n1) >= Abs(n2) THEN n2 ELSE TDiv(n2, 2)
             e1 == IF d1 >= d2 THEN d1 \div 2 ELSE d1
             e2 == IF d1 >= d2 THEN d2 ELSE d2 \div 2
         IN  IF e1 = 0 \/ e2 = 0 THEN Infq(Sgn(n1) * Sgn(n2))
             ELSE MulR(m1, e1, m2, e2)

\* Product of two finite rationals; common factors are cancelled first.
MulFin(a, b) ==
    IF a[1] = 0 \/ b[1] = 0 THEN <<0, 1>>
    ELSE CHOOSE r \in { MulR(a[1] \div g1, a[2] \div g2, b[1] \div g2, b[2] \div g1) :
                            g1 \in {GCD(Abs(a[1]), b[2])},
                            g2 \in {GCD(Abs(b[1]), a[2])} } : TRUE

RECURSIVE AddR(_, _, _, _)
AddR(n1, d1, n2, d2) ==
    LET g  == GCD(d1, d2)
        e1 == d2 \div g
        e2 == d1 \div g
    IN  IF FitsH(Abs(n1), e1) /\ FitsH(Abs(n2), e2) /\ Fits(d1, e1)
        THEN Q(n1 * e1 + n2 * e2, d1 * e1)
        ELSE IF d1 = 1 /\ d2 = 1 THEN Infq(IF Abs(n1) >= Abs(n2) THEN n1 ELSE n2)
        ELSE IF d1 >= d2
             THEN (IF Abs(n1) <= 1 THEN Q(n2, d2)
                   ELSE AddR(TDiv(n1, 2), d1 \div 2, n2, d2))
             ELSE (IF Abs(n2) <= 1 THEN Q(n1, d1)
                   ELSE AddR(n1, d1, TDiv(n2, 2), d2 \div 2))

AddQ(a, b) ==
    IF IsNaNq(a) \/ IsNaNq(b) THEN NaNq
    ELSE IF IsInfq(a) /\ IsInfq(b) THEN (IF a[1] = b[1] THEN a ELSE NaNq)
    ELSE IF IsInfq(a) THEN a
    ELSE IF IsInfq(b) THEN b
    ELSE AddR(a[1], a[2], b[1], b[2])

MulQ(a, b) ==
    IF IsNaNq(a) \/ IsNaNq(b) THEN NaNq
    ELSE IF IsInfq(a) \/ IsInfq(b)
         THEN (IF a[1] = 0 \/ b[1] = 0 THEN NaNq ELSE Infq(Sgn(a[1]) * Sgn(b[1])))
    ELSE MulFin(a, b)

\* a / b for b # 0.
DivQ(a, b) ==
    IF IsNaNq(a) \/ IsNaNq(b) THEN NaNq
    ELSE IF IsInfq(b) THEN (IF IsInfq(a) THEN NaNq ELSE <<0, 1>>)
    ELSE MulQ(a, <<Sgn(b[1]) * b[2], Abs(b[1])>>)

\* IEEE x / 0: nan for 0/0 and nan/0, a signed infinity otherwise.
DivZeroQ(a) == IF a[1] = 0 THEN NaNq ELSE Infq(a[1])

\* a < b; false when either is NaN.
LtQ(a, b) == AddQ(a, NegQ(b))[1] < 0 /\ ~IsNaNq(a) /\ ~IsNaNq(b)

RECURSIVE SqrtRefine(_, _)
SqrtRefine(m, d) ==
    IF m > Limit \div 4 \/ d > Limit \div 2 THEN Q(ISqrt(m), d)
    ELSE SqrtRefine(4 * m, 2 * d)

RECURSIVE SqrtR(_, _)
SqrtR(n, d) ==
    IF ~Fits(n, d) THEN SqrtR(n \div 2, d \div 2)
    ELSE LET m == n * d
             r == ISqrt(m)
         IN  IF r * r = m THEN Q(r, d) ELSE SqrtRefine(m, d)

\* Square root of a finite rational >= 0: exact when it is rational.
SqrtQ(p) == SqrtR(p[1], p[2])

\* ------------------------------------------------------------------------
\* Python / numpy floats <<n, d, tag>>
\* ------------------------------------------------------------------------

P(v) == <<v[1], v[2]>>

Mk(p, tag) == <<p[1], p[2], tag>>

\* A Python float literal n/d.
Py(n, d) == Mk(Q(n, d), "py")

\* The value an exception leaves in place of a result.
Exc(name) == <<0, 0, name>>

IsExc(v) == v[3] \notin {"py", "np"}

IsNaN(v) == ~IsExc(v) /\ IsNaNq(P(v))

IsFinite(v) == ~IsExc(v) /\ IsFinq(P(v))

IsZero(v) == IsFinite(v) /\ v[1] = 0

\* numpy's type wins in a mixed operation.
Tag2(a, b) == IF a[3] = "np" \/ b[3] = "np" THEN "np" ELSE "py"

\* An element read from a numpy array is a numpy.float64.
AsNp(v) == IF IsExc(v) THEN v ELSE Mk(P(v), "np")

\* Each operation comes twice: XxxV on values, and FXxx / PyXxx, which
\* evaluates its argument expressions once and applies XxxV to the values.

NegV(a) == IF IsExc(a) THEN a ELSE Mk(NegQ(P(a)), a[3])

FNeg(a) == CHOOSE r \in { NegV(x) : x \in {a} } : TRUE

AddV(a, b) ==
    IF IsExc(a) THEN a ELSE IF IsExc(b) THEN b
    ELSE Mk(AddQ(P(a), P(b)), Tag2(a, b))

FAdd(a, b) == CHOOSE r \in { AddV(x, y) : x \in {a}, y \in {b} } : TRUE

SubV(a, b) ==
    IF IsExc(a) THEN a ELSE IF IsExc(b) THEN b
    ELSE Mk(AddQ(P(a), NegQ(P(b))), Tag2(a, b))

FSub(a, b) == CHOOSE r \in { SubV(x, y) : x \in {a}, y \in {b} } : TRUE

MulV(a, b) ==
    IF IsExc(a) THEN a ELSE IF IsExc(b) THEN b
    ELSE Mk(MulQ(P(a), P(b)), Tag2(a, b))

FMul(a, b) == CHOOSE r \in { MulV(x, y) : x \in {a}, y \in {b} } : TRUE

\* x / y: two Python floats raise ZeroDivisionError on y = 0; with a
\* numpy.float64 on either side the result is inf or nan instead.
DivV(a, b) ==
    IF IsExc(a) THEN a ELSE IF IsExc(b) THEN b
    ELSE IF IsZero(b)
         THEN (IF Tag2(a, b) = "py" THEN Exc("ZeroDivisionError")
               ELSE Mk(DivZeroQ(P(a)), "np"))
    ELSE Mk(DivQ(P(a), P(b)), Tag2(a, b))

FDiv(a, b) == CHOOSE r \in { DivV(x, y) : x \in {a}, y \in {b} } : TRUE

\* x ** 2
SqV(a) == MulV(a, a)

FSq(a) == CHOOSE r \in { SqV(x) : x \in {a} } : TRUE

\* math.sqrt: always a Python float; ValueError below zero.
SqrtV(a) ==
    IF IsExc(a) THEN a
    ELSE IF IsNaN(a) THEN Mk(NaNq, "py")
    ELSE IF a[1] < 0 THEN Exc("ValueError")
    ELSE IF ~IsFinite(a) THEN Mk(P(a), "py")
    ELSE Mk(SqrtQ(P(a)), "py")

FSqrt(a) == CHOOSE r \in { SqrtV(x) : x \in {a} } : TRUE

\* a < b on floats (false if either is NaN).
LtV(a, b) == LtQ(P(a), P(b))

FLt(a, b) == CHOOSE r \in { LtV(x, y) : x \in {a}, y \in {b} } : TRUE

\* a >= b on floats (false if either is NaN).
GeV(a, b) == ~IsNaN(a) /\ ~IsNaN(b) /\ ~LtQ(P(a), P(b))

FGe(a, b) == CHOOSE r \in { GeV(x, y) : x \in {a}, y \in {b} } : TRUE

\* min(a, b): the first argument unless the second is smaller.
MinV(a, b) == IF IsExc(a) THEN a ELSE IF LtV(b, a) THEN b ELSE a

PyMin(a, b) == CHOOSE r \in { MinV(x, y) : x \in {a}, y \in {b} } : TRUE

\* max(a, b): the first argument unless the second is larger.
MaxV(a, b) == IF IsExc(a) THEN a ELSE IF LtV(a, b) THEN b ELSE a

PyMax(a, b) == CHOOSE r \in { MaxV(x, y) : x \in {a}, y \in {b} } : TRUE

\* The first exception in a list of values in program order, or "none".
RECURSIVE FirstExc(_)
FirstExc(vs) ==
    IF vs = <<>> THEN "none"
    ELSE IF IsExc(Head(vs)) THEN Head(vs)[3]
    ELSE FirstExc(Tail(vs))

Zero == Py(0, 1)

One == Py(1, 1)

\* ------------------------------------------------------------------------
\* class simple_landing: pure methods
\* ------------------------------------------------------------------------

QC == "QC"

MOC == "MOC"

\* A variant of _non_dim that scales the list it is handed in place (no
\* deepcopy); C8's property must tell it from NonDim.
NonDimInPlace(self, state) ==
    [ret |-> [i \in 1..Len(state) |->
                 IF i \in {1, 2} THEN FDiv(state[i], self.R)
                 ELSE IF i \in {3, 4} THEN FDiv(state[i], self.V)
                 ELSE IF i = 5 THEN FDiv(state[i], self.M)
                 ELSE state[i]],
     arg |-> [i \in 1..Len(state) |->
                 IF i \in {1, 2} THEN FDiv(state[i], self.R)
                 ELSE IF i \in {3, 4} THEN FDiv(state[i], self.V)
                 ELSE IF i = 5 THEN FDiv(state[i], self.M)
                 ELSE state[i]]]

\* _non_dim: works on a deepcopy of its argument.  ret is the list returned,
\* arg the content of the caller's list when the call returns.
NonDim(self, state) ==
    [ret |-> [i \in 1..Len(state) |->
                 IF i \in {1, 2} THEN FDiv(state[i], self.R)
                 ELSE IF i \in {3, 4} THEN FDiv(state[i], self.V)
                 ELSE IF i = 5 THEN FDiv(state[i], self.M)
                 ELSE state[i]],
     arg |-> state]

\* _dim_back: works on a deepcopy of its argument.
DimBack(self, state) ==
    [ret |-> [i \in 1..Len(state) |->
                 IF i \in {1, 2} THEN FMul(state[i], self.R)
                 ELSE IF i \in {3, 4} THEN FMul(state[i], self.V)
                 ELSE IF i = 5 THEN FMul(state[i], self.M)
                 ELSE state[i]],
     arg |-> state]

\* __init__: no argument is validated; the outcome is always an object.
Construct(a) ==
    LET R  == Py(1000, 1)
        V  == Py(100, 1)
        M  == Py(10000, 1)
        A  == FDiv(FMul(V, V), R)
        T  == FDiv(R, V)
        F  == FMul(M, A)
        u  == [R |-> R, V |-> V, M |-> M]
        n0 == NonDim(u, a.state0)
        nt == NonDim(u, a.statet)
    IN  [outcome |-> "ok",
         self |-> [state0_input |-> n0.arg,
                   statet_input |-> nt.arg,
                   R |-> R, V |-> V, M |-> M, A |-> A, T |-> T, F |-> F,
                   Isp |-> FDiv(a.Isp, T),
                   c   |-> FDiv(a.c, F),
                   g   |-> FDiv(a.g, A),
                   G0  |-> FDiv(Py(981, 100), A),
                   state0 |-> n0.ret,
                   statet |-> nt.ret,
                   lb |-> <<Py(-1, 1), Py(-1, 1), Py(-1, 1), Py(-1, 1), Py(-1, 1),
                            Py(1, 10000)>>,
                   ub |-> <<One, One, One, One, One, FDiv(Py(100, 1), T)>>,
                   objfun_type |-> a.objfun_type,
                   pinpoint |-> a.pinpoint]]

\* _objfun_impl
ObjFun(self, x) == <<One>>

\* The MassOptimal throttle of _pontryagin_minimum_principle (lines 187-191)
\* for the value S of the switching function.
ThrottleMOC(S) ==
    IF IsExc(S) THEN S
    ELSE IF GeV(S, Zero) THEN Zero
    ELSE IF LtV(S, Zero) THEN One
    ELSE Exc("UnboundLocalError")

\* A variant of ThrottleQC without the lower clamp max(u, 0.); C5's
\* property must tell it from ThrottleQC.
ThrottleQCNoFloor(self, lm, lv_norm, m) ==
    PyMin(FMul(FDiv(One, self.c),
               FAdd(lm, FDiv(FMul(FMul(lv_norm, self.Isp), self.G0), m))),
          One)

\* The QuadraticControl throttle (lines 182-184).
ThrottleQC(self, lm, lv_norm, m) ==
    PyMax(PyMin(FMul(FDiv(One, self.c),
                     FAdd(lm, FDiv(FMul(FMul(lv_norm, self.Isp), self.G0), m))),
                One),
          Zero)

\* Lines 180-191: the throttle for the objective chosen at construction.
Throttle(self, lm, lv_norm, m) ==
    IF self.objfun_type = QC THEN ThrottleQC(self, lm, lv_norm, m)
    ELSE IF self.objfun_type = MOC
    THEN CHOOSE r \in { ThrottleMOC(S) :
             S \in {FSub(FSub(One, lm),
                         FMul(FMul(FDiv(lv_norm, m), self.Isp), self.G0))} } : TRUE
    ELSE Exc("UnboundLocalError")

\* A list of values, or the exception raised while building it.
RaisedV(vs) ==
    IF FirstExc(vs) = "none" THEN vs
    ELSE [i \in 1..Len(vs) |-> Exc(FirstExc(vs))]

Raised(vs) == CHOOSE r \in { RaisedV(x) : x \in {vs} } : TRUE

\* Lines 177-192, given the value of lv_norm.
PMPDir(self, fs, lv_norm) ==
    Raised(<<lv_norm,
             FDiv(FNeg(fs[8]), lv_norm),
             FDiv(FNeg(fs[9]), lv_norm),
             Throttle(self, fs[10], lv_norm, fs[5])>>)

\* _pontryagin_minimum_principle: <<u, stheta, ctheta>>.
PMP(self, fs) ==
    CHOOSE r \in { <<q[4], q[2], q[3]>> :
        q \in { PMPDir(self, fs, lv_norm) :
            lv_norm \in {FSqrt(FAdd(FSq(fs[8]), FSq(fs[9])))} } } : TRUE

\* _eom_state
EomState(self, state, controls) ==
    LET vx == state[3]
        vy == state[4]
        m  == state[5]
        u  == controls[1]
        stheta == controls[2]
        ctheta == controls[3]
    IN  <<vx,
          vy,
          FMul(FDiv(FMul(self.c, u), m), stheta),
          FSub(FMul(FDiv(FMul(self.c, u), m), ctheta), self.g),
          FDiv(FDiv(FMul(FNeg(self.c), u), self.Isp), self.G0)>>

\* A variant of _eom_costate in which lambda_x is driven by lambda_vx;
\* C10's property must tell it from EomCostate.
EomCostateDrift(self, fs, controls) ==
    <<FNeg(fs[8]),
      Zero,
      FNeg(fs[6]),
      FNeg(fs[7]),
      FMul(FDiv(FMul(self.c, controls[1]), FSq(fs[5])),
           FAdd(FMul(fs[8], controls[2]), FMul(fs[9], controls[3])))>>

\* _eom_costate
EomCostate(self, fs, controls) ==
    LET m   == fs[5]
        lx  == fs[6]
        ly  == fs[7]
        lvx == fs[8]
        lvy == fs[9]
        u   == controls[1]
        lvdotitheta == FAdd(FMul(lvx, controls[2]), FMul(lvy, controls[3]))
    IN  <<Zero,
          Zero,
          FNeg(lx),
          FNeg(ly),
          FMul(FDiv(FMul(self.c, u), FSq(m)), lvdotitheta)>>

\* _cost
Cost(self, state, controls) ==
    LET u == controls[1]
    IN  IF self.objfun_type = QC
        THEN FMul(FDiv(FDiv(FSq(self.c), self.Isp), self.G0), FSq(u))
        ELSE IF self.objfun_type = MOC
        THEN FMul(FDiv(FDiv(self.c, self.Isp), self.G0), u)
        ELSE Exc("UnboundLocalError")

\* H = 0.; for l, f in zip(costate, f_vett): H += l * f
RECURSIVE SumProd(_, _, _)
SumProd(H, ls, fv) ==
    IF ls = <<>> \/ fv = <<>> THEN H
    ELSE SumProd(FAdd(H, FMul(Head(ls), Head(fv))), Tail(ls), Tail(fv))

\* Lines 112-122 of _hamiltonian, for a given control triple.
HamiltonianWith(self, fs, controls) ==
    IF IsExc(controls[1]) THEN controls[1]
    ELSE FAdd(SumProd(Zero, SubSeq(fs, 6, Len(fs)),
                      EomState(self, SubSeq(fs, 1, 5), controls)),
              Cost(self, SubSeq(fs, 1, 5), controls))

\* _hamiltonian
Hamiltonian(self, fs) ==
    CHOOSE r \in { HamiltonianWith(self, fs, controls) :
                      controls \in {PMP(self, fs)} } : TRUE

\* Lines 198-202 of _eom, for a given control triple.
EomWith(self, fs, controls) ==
    Raised(controls
           \o EomState(self, SubSeq(fs, 1, 5), controls)
           \o EomCostate(self, fs, controls))

\* _eom: dstate + dcostate; an exception in the control law comes first.
Eom(self, fs, t) ==
    CHOOSE r \in { SubSeq(all, 4, Len(all)) :
        all \in { EomWith(self, fs, controls) :
                     controls \in {PMP(self, fs)} } } : TRUE

Hundred == Py(100, 1)

\* A variant of Residuals that takes slots 1-3 one component later
\* (vx, vy, mass); C1's property must tell it from Residuals.
ResidualsShifted(self, last) ==
    Raised(<<IF self.pinpoint
             THEN FMul(FSub(last[1], self.statet[1]), Hundred)
             ELSE FMul(last[6], Hundred),
             FMul(FSub(last[3], self.statet[3]), Hundred),
             FMul(FSub(last[4], self.statet[4]), Hundred),
             FMul(FSub(last[5], self.statet[5]), Hundred),
             FMul(last[10], Hundred),
             FMul(Hamiltonian(self, last), Hundred)>>)

\* A variant of Residuals whose slot 4 also depends on the pinpoint flag;
\* C2's property must tell it from Residuals.
ResidualsFlagLeak(self, last) ==
    Raised(<<IF self.pinpoint
             THEN FMul(FSub(last[1], self.statet[1]), Hundred)
             ELSE FMul(last[6], Hundred),
             FMul(FSub(last[2], self.statet[2]), Hundred),
             FMul(FSub(last[3], self.statet[3]), Hundred),
             FMul(FSub(last[4], self.statet[4]), Hundred),
             IF self.pinpoint THEN FMul(last[10], Hundred) ELSE FMul(last[6], Hundred),
             FMul(Hamiltonian(self, last), Hundred)>>)

\* Lines 80-102 of _compute_constraints_impl for the last row of xf:
\* ceq, slot i at index i + 1.
Residuals(self, last) ==
    Raised(<<IF self.pinpoint
             THEN FMul(FSub(last[1], self.statet[1]), Hundred)
             ELSE FMul(last[6], Hundred),
             FMul(FSub(last[2], self.statet[2]), Hundred),
             FMul(FSub(last[3], self.statet[3]), Hundred),
             FMul(FSub(last[4], self.statet[4]), Hundred),
             FMul(last[10], Hundred),
             FMul(Hamiltonian(self, last), Hundred)>>)

\* _compute_constraints_impl after the shooting.
ComputeConstraints(self, xf) ==
    CHOOSE r \in { Residuals(self, last) : last \in {xf[Len(xf)]} } : TRUE

\* self.state0 + list(x[:-1]), converted to an array by odeint.
ShootY0(self, x) ==
    [i \in 1..10 |-> AsNp((self.state0 \o SubSeq(x, 1, Len(x) - 1))[i])]

\* ------------------------------------------------------------------------
\* Inputs
\* ------------------------------------------------------------------------

\* Internal steps one call of the integrator may take per output time
\* (stands for mxstep=2000).
MxStep == 2

\* Step sizes the adaptive integrator may choose.
StepSizes == {Py(1, 2), Py(1, 1)}

State0Default == <<Py(0, 1), Py(1000, 1), Py(20, 1), Py(-5, 1), Py(10000, 1)>>

\* The default target; its mass is written 9758.7 (9758.695805 in the source
\* does not fit; the target mass enters no residual).
StatetDefault == <<Py(0, 1), Py(0, 1), Py(0, 1), Py(0, 1), Py(97587, 10)>>

DefaultArgs ==
    [state0 |-> State0Default, statet |-> StatetDefault,
     Isp |-> Py(311, 1), c |-> Py(44000, 1), g |-> Py(16229, 10000),
     objfun_type |-> QC, pinpoint |-> FALSE]

\* Constructor arguments: the default problem, both objectives, both landing
\* modes, and configurations that are not physical.
ArgsSet ==
    { [DefaultArgs EXCEPT !.objfun_type = o, !.pinpoint = p] :
          o \in {QC, MOC}, p \in BOOLEAN }
    \cup { [DefaultArgs EXCEPT !.objfun_type = o, !.Isp = Zero] : o \in {QC, MOC} }
    \cup { [DefaultArgs EXCEPT !.c = Zero],
           [DefaultArgs EXCEPT !.c = Py(-44000, 1)],
           [DefaultArgs EXCEPT !.state0[5] = Py(-10000, 1)] }

\* Isp <= 0, thrust <= 0 or a negative mass.
NonPhysical(a) ==
    \/ ~FLt(Zero, a.Isp)
    \/ ~FLt(Zero, a.c)
    \/ FLt(a.state0[5], Zero)
    \/ FLt(a.statet[5], Zero)

Times == {Py(1, 1), Py(2, 1)}

\* Initial costates of the decision vectors.
Costates0 ==
    { <<Py(0, 1), Py(0, 1), Py(0, 1), Py(-1, 1), Py(0, 1)>>,
      <<Py(0, 1), Py(0, 1), Py(0, 1), Py(0, 1), Py(0, 1)>>,
      <<Py(1, 1), Py(0, 1), Py(1, 1), Py(0, 1), Py(0, 1)>>,
      <<Py(-1, 5), Py(1, 10), Py(3, 5), Py(-4, 5), Py(1, 2)>>,
      <<Py(0, 1), Py(0, 1), Py(0, 1), Py(-1, 1), Py(-31, 1)>> }

\* Decision vectors: 5 initial costates and the final time.
DecisionVectors == { l \o <<tf>> : l \in Costates0, tf \in Times }

\* Costates of the augmented states passed to the pure methods directly.
CostatesDirect ==
    { <<Py(0, 1), Py(0, 1), Py(0, 1), Py(-1, 1), Py(0, 1)>>,
      <<Py(0, 1), Py(0, 1), Py(0, 1), Py(0, 1), Py(0, 1)>>,
      <<Py(-1, 5), Py(1, 10), Py(3, 5), Py(-4, 5), Py(1, 2)>>,
      <<Py(0, 1), Py(0, 1), Py(0, 1), Py(-1, 1), Py(-302891, 10000)>>,
      <<Py(0, 1), Py(0, 1), Py(3, 5), Py(4, 5), Py(-31, 1)>> }

\* The same list as a Python list ("py") or as a numpy array ("np").
AsKind(k, fs) == [i \in 1..Len(fs) |-> IF k = "np" THEN AsNp(fs[i]) ELSE fs[i]]

\* Augmented states for direct calls: the initial state with each costate,
\* and one state of zero mass.
AugStates(self) ==
    { AsKind(k, self.state0 \o l) : l \in CostatesDirect, k \in {"py", "np"} }
    \cup { AsKind(k, [self.state0 EXCEPT ![5] = Zero]
                     \o <<Py(0, 1), Py(0, 1), Py(0, 1), Py(-1, 1), Py(0, 1)>>) :
               k \in {"py", "np"} }

\* Throttles and unit thrust directions tried against the control law.
AltThrottles == {Py(0, 1), Py(1, 4), Py(1, 2), Py(3, 4), Py(1, 1)}

AltDirections ==
    { <<Py(a, 5), Py(b, 5)>> :
          a \in {-5, -4, -3, 0, 3, 4, 5}, b \in {-5, -4, -3, 0, 3, 4, 5} }

AltControls ==
    { <<u, d[1], d[2]>> :
          u \in AltThrottles,
          d \in { e \in AltDirections : FAdd(FSq(e[1]), FSq(e[2])) = One } }

\* What an array row left unwritten by a failed integration may hold.
GarbageRows == { [i \in 1..10 |-> Mk(<<0, 1>>, "np")], [i \in 1..10 |-> Mk(NaNq, "np")] }

\* linspace(0, x[-1], 100), cut down to three output times.
Linspace3(tf) == <<Zero, FDiv(tf, Py(2, 1)), tf>>

\* ------------------------------------------------------------------------
\* State
\* ------------------------------------------------------------------------

VARIABLES
    args,   \* the constructor's arguments, as passed
    ctor,   \* the outcome of the construction
    self,   \* the attributes of the problem object
    pc,     \* "idle", or "odeint" while an integration runs
    call,   \* the evaluation in progress or last made
    ode,    \* the integrator: state, time, output rows
    ret     \* what the last call returned or raised

vars == <<args, ctor, self, pc, call, ode, ret>>

NoCall == [op |-> "none", x |-> <<>>, x0 |-> <<>>]

NoOde ==
    [status |-> "idle", y |-> <<>>, t |-> Zero, k |-> 0, tspan |-> <<>>,
     nst |-> 0, rows |-> <<>>, traj |-> <<>>, f |-> <<>>]

NoRet ==
    [op |-> "none", kind |-> "none", exc |-> "none", val |-> <<>>,
     xf |-> <<>>, info |-> "none", inp |-> <<>>, arg |-> <<>>]

Init ==
    \E a \in ArgsSet : \E made \in {Construct(a)} :
        /\ args = a
        /\ ctor = made.outcome
        /\ self = made.self
        /\ pc = "idle"
        /\ call = NoCall
        /\ ode = NoOde
        /\ ret = NoRet

\* The outcome of a call that computed the list vs (or raised).
OutcomeV(op, vs, inp) ==
    IF FirstExc(vs) = "none"
    THEN [NoRet EXCEPT !.op = op, !.kind = "return", !.val = vs, !.inp = inp]
    ELSE [NoRet EXCEPT !.op = op, !.kind = "raise", !.exc = FirstExc(vs), !.inp = inp]

Outcome(op, vs, inp) == CHOOSE r \in { OutcomeV(op, x, inp) : x \in {vs} } : TRUE

Direct(r) ==
    /\ pc = "idle"
    /\ ret' = r
    /\ call' = NoCall
    /\ ode' = NoOde
    /\ UNCHANGED <<args, ctor, self, pc>>

CallObjFun == \E x \in DecisionVectors : Direct(Outcome("objfun", ObjFun(self, x), x))

CallPMP == \E fs \in AugStates(self) : Direct(Outcome("pmp", PMP(self, fs), fs))

CallHamiltonian ==
    \E fs \in AugStates(self) :
        Direct(Outcome("hamiltonian", <<Hamiltonian(self, fs)>>, fs))

CallEom == \E fs \in AugStates(self) : Direct(Outcome("eom", Eom(self, fs, Zero), fs))

CallEomCostate ==
    \E fs \in AugStates(self), ctl \in {<<u, Zero, One>> : u \in {Zero, One}} :
        Direct(Outcome("eom_costate", EomCostate(self, fs, ctl), fs))

\* The lists a caller may hand to _non_dim / _dim_back: one of its own, or
\* one the object holds.
ListSources == {"caller", "state0_input", "statet_input", "state0", "statet"}

ListOf(src) ==
    IF src = "caller" THEN State0Default
    ELSE IF src = "state0_input" THEN self.state0_input
    ELSE IF src = "statet_input" THEN self.statet_input
    ELSE IF src = "state0" THEN self.state0
    ELSE self.statet

\* The object after a call that left `after` in the list it was handed.
SelfAfter(src, after) ==
    IF src = "state0_input" THEN [self EXCEPT !.state0_input = after]
    ELSE IF src = "statet_input" THEN [self EXCEPT !.statet_input = after]
    ELSE IF src = "state0" THEN [self EXCEPT !.state0 = after]
    ELSE IF src = "statet" THEN [self EXCEPT !.statet = after]
    ELSE self

Scaled(op, src, r) ==
    /\ pc = "idle"
    /\ ret' = [Outcome(op, r.ret, ListOf(src)) EXCEPT !.arg = r.arg]
    /\ self' = SelfAfter(src, r.arg)
    /\ call' = NoCall
    /\ ode' = NoOde
    /\ UNCHANGED <<args, ctor, pc>>

CallNonDim ==
    \E src \in ListSources : \E r \in {NonDim(self, ListOf(src))} :
        Scaled("non_dim", src, r)

CallDimBack ==
    \E src \in ListSources : \E r \in {DimBack(self, ListOf(src))} :
        Scaled("dim_back", src, r)

\* odeint(..., y0, tspan, ...) is entered.
OdeBegin(op, x, tspan) ==
    /\ pc = "idle"
    /\ pc' = "odeint"
    /\ call' = [op |-> op, x |-> x, x0 |-> x]
    /\ \E y0 \in {ShootY0(self, x)} :
           ode' = [NoOde EXCEPT !.status = "running", !.y = y0,
                                !.t = tspan[1], !.k = 2, !.tspan = tspan,
                                !.rows = <<y0>>, !.traj = <<y0>>]
    /\ ret' = NoRet
    /\ UNCHANGED <<args, ctor, self>>

CallConstraints == \E x \in DecisionVectors : OdeBegin("constraints", x, <<Zero, x[6]>>)

CallShoot == \E x \in DecisionVectors : OdeBegin("shoot", x, <<Zero, x[6]>>)

CallSimulate == \E x \in DecisionVectors : OdeBegin("simulate", x, Linspace3(x[6]))

\* What the caller of odeint does with (xf, info).
Return(op, xf, info) ==
    IF op = "constraints"
    THEN Outcome(op, ComputeConstraints(self, xf), call.x)
    ELSE [NoRet EXCEPT !.op = op, !.kind = "return", !.xf = xf, !.info = info,
                       !.inp = call.x]

\* The right-hand side at the integrator's current state.
Rhs == Eom(self, ode.y, ode.t)

Euler(y, h, f) == [i \in 1..10 |-> AsNp(FAdd(y[i], FMul(h, f[i])))]

\* The step h is taken when the right-hand side f raised nothing, the step
\* budget is not used up and h does not pass the output time.
StepOk(h, f) ==
    /\ FirstExc(f) = "none"
    /\ ode.nst < MxStep
    /\ ~FLt(ode.tspan[ode.k], FAdd(ode.t, h))

Arrives(h) == P(FAdd(ode.t, h)) = P(ode.tspan[ode.k])

Stepped(h, f, y2) ==
    [ode EXCEPT !.y = y2,
                !.t = FAdd(ode.t, h),
                !.f = f,
                !.traj = Append(ode.traj, y2),
                !.nst = IF Arrives(h) THEN 0 ELSE ode.nst + 1,
                !.k = IF Arrives(h) THEN ode.k + 1 ELSE ode.k,
                !.rows = IF Arrives(h) THEN Append(ode.rows, y2) ELSE ode.rows]

\* One internal step that does not end the call.
OdeAdvance ==
    /\ pc = "odeint"
    /\ \E h \in StepSizes, f \in {Rhs} :
        /\ StepOk(h, f)
        /\ ~(Arrives(h) /\ ode.k = Len(ode.tspan))
        /\ \E y2 \in {Euler(ode.y, h, f)} : ode' = Stepped(h, f, y2)
        /\ UNCHANGED <<args, ctor, self, pc, call, ret>>

\* The step that reaches the last output time: odeint returns and the
\* caller finishes.
OdeComplete ==
    /\ pc = "odeint"
    /\ \E h \in StepSizes, f \in {Rhs} :
        /\ StepOk(h, f)
        /\ Arrives(h) /\ ode.k = Len(ode.tspan)
        /\ \E y2 \in {Euler(ode.y, h, f)} :
            /\ ode' = [Stepped(h, f, y2) EXCEPT !.status = "success"]
            /\ ret' = Return(call.op, Append(ode.rows, y2), "success")
        /\ pc' = "idle"
        /\ UNCHANGED <<args, ctor, self, call>>

\* The integrator gives up: the state it reached is copied to the current
\* output row, later rows stay unwritten, and odeint returns normally.
GiveUp(g) ==
    \E rows \in { ode.rows \o <<ode.y>>
                  \o [i \in 1..(Len(ode.tspan) - ode.k) |-> g] } :
        /\ ode' = [ode EXCEPT !.status = "failed", !.rows = rows]
        /\ ret' = Return(call.op, rows, "failed")
        /\ pc' = "idle"
        /\ UNCHANGED <<args, ctor, self, call>>

\* mxstep internal steps were taken before the output time.
OdeStepLimit ==
    /\ pc = "odeint"
    /\ ode.nst >= MxStep
    /\ \E f \in {Rhs} : FirstExc(f) = "none"
    /\ \E g \in GarbageRows : GiveUp(g)

\* A NaN or infinite derivative: the integrator may fail to converge (or
\* may not notice, and go on through OdeAdvance / OdeComplete).
OdeNonFinite ==
    /\ pc = "odeint"
    /\ \E f \in {Rhs} : FirstExc(f) = "none" /\ \E i \in 1..10 : ~IsFinite(f[i])
    /\ \E g \in GarbageRows : GiveUp(g)

\* The right-hand side raised: the exception leaves odeint and the caller.
OdeRaise ==
    /\ pc = "odeint"
    /\ \E f \in {Rhs} :
        /\ FirstExc(f) # "none"
        /\ ret' = [NoRet EXCEPT !.op = call.op, !.kind = "raise",
                                !.exc = FirstExc(f), !.inp = call.x]
    /\ ode' = [ode EXCEPT !.status = "raised"]
    /\ pc' = "idle"
    /\ UNCHANGED <<args, ctor, self, call>>

Next ==
    \/ CallObjFun
    \/ CallPMP
    \/ CallHamiltonian
    \/ CallEom
    \/ CallEomCostate
    \/ CallNonDim
    \/ CallDimBack
    \/ CallConstraints
    \/ CallShoot
    \/ CallSimulate
    \/ OdeAdvance
    \/ OdeComplete
    \/ OdeStepLimit
    \/ OdeNonFinite
    \/ OdeRaise

Spec == Init /\ [][Next]_vars

\* ------------------------------------------------------------------------
\* Properties
\* ------------------------------------------------------------------------

\* The last row of the array odeint handed back.
LastRow == ode.rows[Len(ode.rows)]

\* A constraint evaluation returned a vector after a successful propagation.
ConstraintsSucceeded ==
    /\ ret.op = "constraints"
    /\ ret.kind = "return"
    /\ ode.status = "success"

\* C1 as stated: after a successful propagation slot 1 = 100 x (final vx -
\* target vx), slot 2 = 100 x (final vy - target vy) and slot 3 = 100 x
\* (final mass - target mass).
C1_AsStated ==
    ConstraintsSucceeded =>
        /\ ret.val[2] = FMul(FSub(LastRow[3], self.statet[3]), Hundred)
        /\ ret.val[3] = FMul(FSub(LastRow[4], self.statet[4]), Hundred)
        /\ ret.val[4] = FMul(FSub(LastRow[5], self.statet[5]), Hundred)

\* C1, amended: after a successful propagation slot 1 = 100 x (final y -
\* target y), slot 2 = 100 x (final vx - target vx), slot 3 = 100 x (final
\* vy - target vy); the mass enters no slot, slot 4 is 100 x final lambda_m.
C1_Residuals ==
    ConstraintsSucceeded =>
        /\ ret.val[2] = FMul(FSub(LastRow[2], self.statet[2]), Hundred)
        /\ ret.val[3] = FMul(FSub(LastRow[3], self.statet[3]), Hundred)
        /\ ret.val[4] = FMul(FSub(LastRow[4], self.statet[4]), Hundred)
        /\ ret.val[5] = FMul(LastRow[10], Hundred)

\* A successful evaluation whose final altitude, velocity and mass residuals
\* are finite and pairwise different, so that the slots tell them apart.
C1_Witness ==
    /\ ConstraintsSucceeded
    /\ \A i \in 2..5 : IsFinite(LastRow[i])
    /\ P(FSub(LastRow[2], self.statet[2])) # P(FSub(LastRow[3], self.statet[3]))
    /\ P(FSub(LastRow[3], self.statet[3])) # P(FSub(LastRow[4], self.statet[4]))
    /\ P(FSub(LastRow[4], self.statet[4])) # P(FSub(LastRow[5], self.statet[5]))
    /\ IsFinite(ret.val[2]) /\ ~IsZero(ret.val[2])

\* C2: slot 0 of a returned constraint vector is 100 x (final x - target x)
\* when pinpoint is set and 100 x final lambda_x otherwise, and slots 1-5
\* are what the same evaluation gives with the flag flipped.
C2_SlotZero ==
    (ret.op = "constraints" /\ ret.kind = "return") =>
        /\ self.pinpoint =>
              ret.val[1] = FMul(FSub(LastRow[1], self.statet[1]), Hundred)
        /\ ~self.pinpoint => ret.val[1] = FMul(LastRow[6], Hundred)
        /\ \A i \in 2..6 :
              ret.val[i] =
                  ComputeConstraints([self EXCEPT !.pinpoint = ~self.pinpoint],
                                     ode.rows)[i]

\* A pinpoint evaluation returned a position residual that differs from the
\* costate residual the other branch would have written.
C2_Witness ==
    /\ ConstraintsSucceeded
    /\ self.pinpoint
    /\ IsFinite(ret.val[1])
    /\ P(ret.val[1]) # P(FMul(LastRow[6], Hundred))

\* C3 as stated: when the propagation failed, a constraint evaluation ends
\* in an explicit failure and returns no constraint vector.
C3_AsStated ==
    (call.op = "constraints" /\ ode.status = "failed") => ret.kind = "raise"

\* lv_norm as the control law computes it for the augmented state fs.
LvNorm(fs) == FSqrt(FAdd(FSq(fs[8]), FSq(fs[9])))

\* lambda_vx = lambda_vy = 0
Singular(fs) == IsZero(fs[8]) /\ IsZero(fs[9])

AllFinite(vs) == \A i \in 1..Len(vs) : IsFinite(vs[i])

\* C4 as stated: with lambda_vx = lambda_vy = 0 the control law, called
\* directly, from the Hamiltonian evaluator or from the integrated
\* right-hand side, yields SingularControlLaw; no control triple, Hamiltonian
\* or derivative is returned and the integrator takes no step from there.
C4_AsStated ==
    /\ (ret.op \in {"pmp", "hamiltonian", "eom"} /\ Singular(ret.inp)) =>
           (ret.kind = "raise" /\ ret.exc = "SingularControlLaw")
    /\ \A i \in 1..(Len(ode.traj) - 1) : ~Singular(ode.traj[i])
    /\ (ode.status \in {"success", "failed"} /\ Singular(ode.y)
            /\ call.op = "constraints") =>
           (ret.kind = "raise" /\ ret.exc = "SingularControlLaw")

\* The throttle C5 prescribes for the augmented state fs.
ClampedThrottle(fs) ==
    LET raw == FDiv(FAdd(fs[10],
                         FDiv(FMul(FMul(LvNorm(fs), self.Isp), self.G0), fs[5])),
                    self.c)
    IN  IF FLt(raw, Zero) THEN Zero ELSE IF FLt(One, raw) THEN One ELSE raw

SwitchingFunction(fs) ==
    FSub(FSub(One, fs[10]), FMul(FMul(FDiv(LvNorm(fs), fs[5]), self.Isp), self.G0))

\* The control law returned the throttle C5 prescribes.
AdmissibleThrottle ==
    /\ ret.kind = "return"
    /\ IsFinite(ret.val[1])
    /\ self.objfun_type = QC =>
          /\ P(ret.val[1]) = P(ClampedThrottle(ret.inp))
          /\ ~FLt(ret.val[1], Zero) /\ ~FLt(One, ret.val[1])
    /\ self.objfun_type = MOC =>
          /\ FGe(SwitchingFunction(ret.inp), Zero) => P(ret.val[1]) = P(Zero)
          /\ FLt(SwitchingFunction(ret.inp), Zero) => P(ret.val[1]) = P(One)
          /\ P(ret.val[1]) \in {P(Zero), P(One)}

\* C5 as stated: for every augmented state with lv_norm > 0 the control law
\* returns the clamped throttle (QuadraticControl) or the bang-bang throttle
\* (MassOptimal), and no other value or outcome occurs.
C5_AsStated ==
    (ret.op = "pmp" /\ AllFinite(ret.inp) /\ FLt(Zero, LvNorm(ret.inp))) =>
        AdmissibleThrottle

\* C5, amended: for every augmented state of finite components with
\* lv_norm > 0 and m # 0, under a configuration whose scaled thrust c is not
\* zero, the control law returns the clamped throttle (QuadraticControl) or
\* the bang-bang throttle (MassOptimal), and no other value or outcome occurs.
C5_Throttle ==
    (ret.op = "pmp" /\ AllFinite(ret.inp) /\ FLt(Zero, LvNorm(ret.inp))
        /\ ~IsZero(ret.inp[5]) /\ ~IsZero(self.c)) =>
        AdmissibleThrottle

\* The QuadraticControl law returned a throttle strictly inside (0, 1).
C5_Witness ==
    /\ ret.op = "pmp" /\ ret.kind = "return"
    /\ self.objfun_type = QC
    /\ AllFinite(ret.inp) /\ FLt(Zero, LvNorm(ret.inp)) /\ ~IsZero(ret.inp[5])
    /\ FLt(Zero, ret.val[1]) /\ FLt(ret.val[1], One)

\* The decision vector lies within the declared bounds.
InBounds(x) ==
    /\ Len(x) = 6
    /\ \A i \in 1..6 : ~FLt(x[i], self.lb[i]) /\ ~FLt(self.ub[i], x[i])

\* C6 as stated: for a configuration with positive initial mass and a
\* decision vector within the bounds, the mass is strictly positive at every
\* point of a successfully propagated trajectory.
C6_AsStated ==
    (ode.status = "success" /\ ~NonPhysical(args) /\ InBounds(call.x)) =>
        \A i \in 1..Len(ode.traj) : FLt(Zero, ode.traj[i][5])

\* C7 as stated: construction with Isp <= 0, thrust <= 0 or a negative mass
\* ends in InvalidConfig.
C7_AsStated == NonPhysical(args) => ctor = "InvalidConfig"

\* C8: every configuration field of the object is as the constructor left
\* it, the lists handed to the constructor hold what the caller passed, a
\* list handed to _non_dim / _dim_back is unchanged when the call ends, and
\* so is the decision vector of an evaluation.
C8_Frame ==
    /\ self = Construct(args).self
    /\ self.state0_input = args.state0
    /\ self.statet_input = args.statet
    /\ ret.op \in {"non_dim", "dim_back"} => ret.arg = ret.inp
    /\ call.x = call.x0

\* _non_dim was handed the raw initial state the object holds and returned
\* a list that differs from it.
C8_Witness ==
    /\ ret.op = "non_dim" /\ ret.kind = "return"
    /\ ret.inp = self.state0_input
    /\ ret.val # ret.inp

\* C9 as stated: for m > 0 and lv_norm > 0 no admissible control (throttle
\* in [0,1], unit thrust direction) gives a strictly smaller Hamiltonian
\* than the triple the control law returned.
C9_AsStated ==
    (ret.op = "pmp" /\ ret.kind = "return" /\ ~NonPhysical(args)
        /\ AllFinite(ret.inp) /\ FLt(Zero, ret.inp[5])
        /\ FLt(Zero, LvNorm(ret.inp))) =>
        \A alt \in AltControls :
            ~FLt(HamiltonianWith(self, ret.inp, alt),
                 HamiltonianWith(self, ret.inp, ret.val))

\* C10: at every step of a propagation lambda_x and lambda_y equal the first
\* two components of the decision vector, and every derivative computed for
\* them, by the integrated right-hand side or by a direct call with any
\* state and control, is zero.
C10_ConstantsOfMotion ==
    /\ \A i \in 1..Len(ode.traj) :
          /\ P(ode.traj[i][6]) = P(call.x[1])
          /\ P(ode.traj[i][7]) = P(call.x[2])
    /\ ode.f # <<>> => (IsZero(ode.f[6]) /\ IsZero(ode.f[7]))
    /\ (ret.op = "eom" /\ ret.kind = "return") =>
          (IsZero(ret.val[6]) /\ IsZero(ret.val[7]))
    /\ (ret.op = "eom_costate" /\ ret.kind = "return") =>
          (IsZero(ret.val[1]) /\ IsZero(ret.val[2]))

\* A propagation with lambda_x # 0 took two steps during which lambda_vx
\* changed.
C10_Witness ==
    /\ Len(ode.traj) >= 3
    /\ ~IsZero(call.x[1])
    /\ IsFinite(ode.traj[3][8])
    /\ P(ode.traj[3][8]) # P(ode.traj[1][8])

====
